---- MODULE Spec2Model ----
(***************************************************************************)
(* A model of track.go: the Track of a WebRTC peer connection.  One Track, *)
(* its RWMutex, its receiver, its senders and its packetizer; a number of  *)
(* goroutines call Read, peek, ReadRTP, determinePayloadType, Write,       *)
(* WriteRTP and WriteSample concurrently.  Every step is one lock          *)
(* operation, one lock section or one call into a collaborator.            *)
(***************************************************************************)
EXTENDS Integers, Sequences, FiniteSets, TLC

(***************************************************************************)
(* Bounds of the model.                                                    *)
(***************************************************************************)
NumSenders == 2
MaxTotalSenders == 1
MaxPackets == 2
MaxPeeks == 2
MaxFragments == 3
MaxPacketized == 3

(***************************************************************************)
(* Program constants.                                                      *)
(***************************************************************************)
rtpOutboundMTU == 1200
receiveMTU == 8192
SeqModulus == 2^16

\* The goroutines that call into the track.
Threads == {1, 2}
MainThread == CHOOSE self \in Threads : \A other \in Threads : self <= other
NoThread == 0
Senders == 1..NumSenders

(***************************************************************************)
(* Values.  A byte string is a sequence of numbers; an optional value is   *)
(* the empty sequence (Go's nil) or a one-element sequence; an error is a  *)
(* sequence of strings, nil being the empty one.                           *)
(***************************************************************************)
None == <<>>
Some(x) == <<x>>
Get(o) == o[1]

Min(a, b) == IF a < b THEN a ELSE b

nil == <<>>
errTrackLocalTrackRead == <<"errTrackLocalTrackRead">>
errTrackLocalTrackWrite == <<"errTrackLocalTrackWrite">>
errTrackSSRCNewTrackZero == <<"errTrackSSRCNewTrackZero">>
ErrClosedPipe == <<"io.ErrClosedPipe">>
ErrShortBuffer == <<"io.ErrShortBuffer">>
errHeaderSizeInsufficient == <<"errHeaderSizeInsufficient">>
SenderName(s) == IF s = 1 THEN "sender1" ELSE IF s = 2 THEN "sender2" ELSE "sender3"
errSendRTP(s) == <<"errSendRTP", SenderName(s)>>

\* util.FlattenErrs: nil when there is no error, otherwise one error that
\* keeps every constituent.
RECURSIVE Concat(_)
Concat(errs) == IF errs = <<>> THEN <<>> ELSE Head(errs) \o Concat(Tail(errs))
FlattenErrs(errs) == IF errs = <<>> THEN nil ELSE <<"multiError">> \o Concat(errs)

\* A copy that stops one byte early.
copyShort(dstLen, src) == SubSeq(src, 1, Min(dstLen, Len(src)) - 1)

\* copy(dst, src) into a destination of dstLen bytes: the bytes written.
copy(dstLen, src) == SubSeq(src, 1, Min(dstLen, Len(src)))

(***************************************************************************)
(* rtp.Packet: a raw packet is a header of HeaderLen bytes (payload type,  *)
(* sequence number) and a payload.                                         *)
(***************************************************************************)
HeaderLen == 2
PayloadTypes == {96, 97}

Unmarshal(raw) ==
    IF Len(raw) < HeaderLen
    THEN [packet |-> None, err |-> errHeaderSizeInsufficient]
    ELSE [packet |-> Some([PayloadType |-> raw[1], SequenceNumber |-> raw[2],
                           Timestamp |-> 0, SSRC |-> 0,
                           Payload |-> SubSeq(raw, HeaderLen + 1, Len(raw))]),
          err |-> nil]

\* What the receiver may deliver as its k-th packet: a well-formed packet of
\* either payload type, or bytes too short to hold a header.
ReceiverPackets(k) == {<<pt, k, 0>> : pt \in PayloadTypes} \cup {<<k>>}

\* packetio's read into a buffer of bufLen bytes: the packet is consumed; one
\* that does not fit is cut and reported as a short buffer.
readRTP(bufLen, raw) ==
    [data |-> copy(bufLen, raw),
     err |-> IF bufLen < Len(raw) THEN ErrShortBuffer ELSE nil]

BufferLens == {2, receiveMTU}

(***************************************************************************)
(* rtp.Packetizer: Packetize cuts the sample into MTU-sized fragments,     *)
(* numbers them with consecutive 16-bit sequence numbers and advances the  *)
(* timestamp by the sample count.                                          *)
(***************************************************************************)
Fragments(dataLen) == (dataLen + rtpOutboundMTU - 1) \div rtpOutboundMTU

PacketizedPackets(pz, dataLen) ==
    [i \in 1..Fragments(dataLen) |->
        [PayloadType |-> pz.PayloadType,
         SequenceNumber |-> (pz.SequenceNumber + i) % SeqModulus,
         Timestamp |-> pz.Timestamp,
         SSRC |-> pz.SSRC,
         Payload |-> <<i>>]]

\* An empty sample yields no packet and leaves the packetizer as it was.
PacketizerAfter(pz, dataLen, samples) ==
    IF dataLen = 0 THEN pz ELSE
    [pz EXCEPT !.SequenceNumber = (pz.SequenceNumber + Fragments(dataLen)) % SeqModulus,
               !.Timestamp = pz.Timestamp + samples,
               !.produced = pz.produced + Fragments(dataLen)]

\* The samples written: an empty one, and one whose last fragment is a single
\* byte.
Samples == {[Data |-> 0, Samples |-> 1],
            [Data |-> (MaxFragments - 1) * rtpOutboundMTU + 1, Samples |-> 1]}

(***************************************************************************)
(* NewTrack.                                                               *)
(***************************************************************************)
Codecs == {[Type |-> "audio", ClockRate |-> 48000, Payloader |-> "opus"],
           [Type |-> "video", ClockRate |-> 90000, Payloader |-> "vp8"],
           [Type |-> "video", ClockRate |-> 90000, Payloader |-> "h264"]}
InitialSequenceNumbers == {0, SeqModulus - 1}

NoTrack == [id |-> "", payloadType |-> 0, kind |-> "", label |-> "", ssrc |-> 0,
            codec |-> None, rid |-> "", packetizer |-> None,
            receiver |-> "nil", activeSenders |-> <<>>, totalSenderCount |-> 0,
            peeked |-> None]

NewPacketizer(mtu, payloadType, ssrc, payloader, sequenceNumber, clockRate) ==
    [MTU |-> mtu, PayloadType |-> payloadType, SSRC |-> ssrc,
     Payloader |-> payloader, SequenceNumber |-> sequenceNumber,
     ClockRate |-> clockRate, Timestamp |-> 0, produced |-> 0]

\* NewTrack without its ssrc check.
NewTrackUnchecked(payloadType, ssrc, id, label, codec, sequenceNumber) ==
    [track |-> Some([NoTrack EXCEPT
                       !.id = id, !.payloadType = payloadType, !.kind = codec.Type,
                       !.label = label, !.ssrc = ssrc, !.codec = Some(codec),
                       !.packetizer = Some(NewPacketizer(rtpOutboundMTU, payloadType,
                                           ssrc, codec.Payloader, sequenceNumber,
                                           codec.ClockRate))]),
     err |-> nil]

NewTrack(payloadType, ssrc, id, label, codec, sequenceNumber) ==
    IF ssrc = 0
    THEN [track |-> None, err |-> errTrackSSRCNewTrackZero]
    ELSE [track |-> Some([NoTrack EXCEPT
                            !.id = id,
                            !.payloadType = payloadType,
                            !.kind = codec.Type,
                            !.label = label,
                            !.ssrc = ssrc,
                            !.codec = Some(codec),
                            !.packetizer = Some(NewPacketizer(rtpOutboundMTU, payloadType,
                                                ssrc, codec.Payloader, sequenceNumber,
                                                codec.ClockRate))]),
          err |-> nil]

(***************************************************************************)
(* State.                                                                  *)
(*   t        the Track (NoTrack while none has been constructed)          *)
(*   mu       t.mu: the goroutine holding it exclusively, those sharing it *)
(*   th       each goroutine's call: the operation, its position, locals,  *)
(*            and what the call has done so far: the receiver reads, the   *)
(*            peeks that returned, the senders called, the packets written *)
(*   rcv      the packets the receiver has delivered so far, in order      *)
(*   gen      history of the peeked slot: peeks started, stores made, the  *)
(*            store whose value is in the slot, and how many callers took  *)
(*            the value of each store                                      *)
(*   newCall  the last NewTrack call: its arguments and what it returned   *)
(***************************************************************************)
VARIABLES t, mu, th, rcv, gen, newCall

vars == <<t, mu, th, rcv, gen, newCall>>

Blank ==
    [op |-> "none", pc |-> "done",
     b |-> 0, n |-> 0, err |-> nil, data |-> <<>>,
     r |-> "nil", peeked |-> FALSE, taken |-> None,
     in |-> <<>>, p |-> None,
     senders |-> <<>>, totalSenderCount |-> 0, i |-> 0, writeErrs |-> <<>>,
     packets |-> <<>>, k |-> 0,
     get |-> <<>>, ret |-> <<>>, s |-> 0,
     reads |-> 0, peeks |-> 0, calls |-> <<>>, wrote |-> <<>>, rets |-> <<>>, prev |-> None,
     log |-> <<>>]

Unlocked == [writer |-> NoThread, readers |-> {}]

\* An RUnlock left out.
RUnlockNot(m, self) == m

\* sync.RWMutex: Lock waits for every holder, RLock for the exclusive one.
CanLock(m) == m.writer = NoThread /\ m.readers = {}

\* The fields read without waiting for the lock.
CanRLockAlways(m) == TRUE

CanRLock(m) == m.writer = NoThread
Lock(m, self) == [m EXCEPT !.writer = self]
Unlock(m, self) == [m EXCEPT !.writer = NoThread]
RLock(m, self) == [m EXCEPT !.readers = @ \cup {self}]
RUnlock(m, self) == [m EXCEPT !.readers = @ \ {self}]

\* The active-sender lists a track may be given: senders in any order,
\* none twice.
RECURSIVE SeqsOver(_, _)
SeqsOver(S, len) ==
    IF len = 0 THEN {<<>>}
    ELSE LET shorter == SeqsOver(S, len - 1)
         IN shorter \cup {Append(q, s) : q \in {x \in shorter : Len(x) = len - 1}, s \in S}
Range(q) == {q[j] : j \in DOMAIN q}
SenderLists == {q \in SeqsOver(Senders, NumSenders) : Cardinality(Range(q)) = Len(q)}

DefaultArgs == [payloadType |-> 96, ssrc |-> 1, id |-> "ID123", label |-> "L",
                codec |-> [Type |-> "video", ClockRate |-> 90000, Payloader |-> "vp8"],
                sequenceNumber |-> SeqModulus - 1]

\* NewTrack called with args: what it returns.
NewTrackOf(args) ==
    NewTrack(args.payloadType, args.ssrc, args.id, args.label, args.codec,
             args.sequenceNumber)

NoGen == [started |-> 0, stores |-> 0, cur |-> 0, taken |-> [g \in 1..MaxPeeks |-> 0]]

\* A constructed track, then given its receiver and senders by the
\* negotiation layer, the active senders being one of lists.
InitWith(lists) ==
    /\ \E receiver \in {"nil", "receiver"}, activeSenders \in lists,
          totalSenderCount \in 0..MaxTotalSenders :
          t = [Get(NewTrackOf(DefaultArgs).track)
               EXCEPT !.receiver = receiver,
                      !.activeSenders = activeSenders,
                      !.totalSenderCount = totalSenderCount]
    /\ mu = Unlocked
    /\ th = [self \in Threads |-> Blank]
    /\ rcv = <<>>
    /\ gen = NoGen
    /\ newCall = [called |-> TRUE, args |-> DefaultArgs,
                  track |-> NewTrackOf(DefaultArgs).track, err |-> nil]

Init == InitWith(SenderLists)

\* For the readers, which never look at the active senders: none is active.
InitRead == InitWith({<<>>})

(***************************************************************************)
(* Read, lines 105-130.                                                    *)
(***************************************************************************)
\* The check of line 109 without its sender count.
ReadModeViolationNilOnly(totalSenderCount, r) == r = "nil"

ReadModeViolation(totalSenderCount, r) == totalSenderCount # 0 \/ r = "nil"

\* What the caller of Read does when Read returns (data, err): Read itself
\* is done; ReadRTP unmarshals; peek goes on to store.
AfterRead(loc, data, err) ==
    LET l == [loc EXCEPT !.data = data, !.n = Len(data), !.err = err]
    IN  IF err # nil \/ loc.op = "Read"
        THEN [l EXCEPT !.pc = "done",
                       !.peeks = IF loc.op \in {"peek", "determinePayloadType"}
                                 THEN @ + 1 ELSE @]
        ELSE IF loc.op = "ReadRTP"
        THEN [l EXCEPT !.pc = "done",
                       !.p = Unmarshal(data).packet,
                       !.err = Unmarshal(data).err]
        ELSE [l EXCEPT !.pc = "peek_Lock"]

\* What a goroutine remembers of the call it has finished (history only).
Summary(loc) ==
    [op |-> loc.op, data |-> loc.data, err |-> loc.err, reads |-> loc.reads,
     taken |-> loc.taken]

\* The locals once the Read of the call has returned (data, err) of a
\* packet, from the receiver or from peeked: a Read the application called,
\* directly or through ReadRTP, is entered in the goroutine's log (history
\* only); the Read inside a peek is not.
Returned(loc, data, err) ==
    IF loc.op \in {"Read", "ReadRTP"}
    THEN [loc EXCEPT !.log = Append(@, [data |-> data, err |-> err])]
    ELSE loc

\* A goroutine calls Read(b), ReadRTP(), determinePayloadType(), or peek(b)
\* with a buffer of receiveMTU bytes as determinePayloadType does.  With
\* history, it remembers the call it has just finished and keeps the log of
\* what its Reads returned.
CallRead(self, history) ==
    /\ th[self].pc = "done"
    /\ \E op \in {"Read", "peek", "ReadRTP", "determinePayloadType"} :
       \E b \in (IF op = "Read" THEN BufferLens ELSE {receiveMTU}) :
          /\ op \in {"peek", "determinePayloadType"} => gen.started < MaxPeeks
          /\ gen' = IF op \in {"peek", "determinePayloadType"}
                    THEN [gen EXCEPT !.started = @ + 1] ELSE gen
          /\ th' = [th EXCEPT ![self] =
                      [Blank EXCEPT !.op = op, !.b = b, !.pc = "Read_RLock",
                                    !.prev = IF history /\ th[self].op # "none"
                                             THEN Some(Summary(th[self])) ELSE None,
                                    !.log = IF history THEN th[self].log ELSE <<>>]]
    /\ UNCHANGED <<t, mu, rcv, newCall>>

\* line 106
Read_RLock(self) ==
    /\ th[self].pc = "Read_RLock"
    /\ CanRLock(mu)
    /\ mu' = RLock(mu, self)
    /\ th' = [th EXCEPT ![self].pc = "Read_check"]
    /\ UNCHANGED <<t, rcv, gen, newCall>>

\* lines 107-114
Read_check(self) ==
    /\ th[self].pc = "Read_check"
    /\ mu' = RUnlock(mu, self)
    /\ th' = [th EXCEPT ![self] =
                IF ReadModeViolation(t.totalSenderCount, t.receiver)
                THEN AfterRead([@ EXCEPT !.r = t.receiver], <<>>, errTrackLocalTrackRead)
                ELSE [@ EXCEPT !.r = t.receiver,
                               !.peeked = (t.peeked # None),
                               !.pc = IF t.peeked # None THEN "Read_Lock"
                                      ELSE "Read_readRTP"]]
    /\ UNCHANGED <<t, rcv, gen, newCall>>

\* line 117
Read_Lock(self) ==
    /\ th[self].pc = "Read_Lock"
    /\ CanLock(mu)
    /\ mu' = Lock(mu, self)
    /\ th' = [th EXCEPT ![self].pc = "Read_take"]
    /\ UNCHANGED <<t, rcv, gen, newCall>>

\* line 118
Read_take(self) ==
    /\ th[self].pc = "Read_take"
    /\ th' = [th EXCEPT ![self].taken = t.peeked, ![self].pc = "Read_clear"]
    /\ gen' = IF t.peeked # None /\ gen.cur # 0
              THEN [gen EXCEPT !.taken[gen.cur] = @ + 1] ELSE gen
    /\ UNCHANGED <<t, mu, rcv, newCall>>

\* Line 119 left out.
ClearPeekedNot(track) == track

\* The track after line 119.
ClearPeeked(track) == [track EXCEPT !.peeked = None]

\* lines 119-127
Read_clear(self) ==
    /\ th[self].pc = "Read_clear"
    /\ t' = ClearPeeked(t)
    /\ gen' = [gen EXCEPT !.cur = IF t'.peeked = None THEN 0 ELSE @]
    /\ mu' = Unlock(mu, self)
    /\ th' = [th EXCEPT ![self] =
                IF @.taken # None
                THEN AfterRead(Returned(@, copy(@.b, Get(@.taken)), nil),
                               copy(@.b, Get(@.taken)), nil)
                ELSE [@ EXCEPT !.pc = "Read_readRTP"]]
    /\ UNCHANGED <<rcv, newCall>>

\* line 129: the receiver delivers its next packet into b.
Read_readRTP(self) ==
    /\ th[self].pc = "Read_readRTP"
    /\ Len(rcv) < MaxPackets
    /\ \E raw \in ReceiverPackets(Len(rcv) + 1) :
          /\ rcv' = Append(rcv, raw)
          /\ th' = [th EXCEPT ![self] =
                      AfterRead(Returned([@ EXCEPT !.reads = @ + 1],
                                         readRTP(@.b, raw).data, readRTP(@.b, raw).err),
                                readRTP(@.b, raw).data, readRTP(@.b, raw).err)]
    /\ UNCHANGED <<t, mu, gen, newCall>>

(***************************************************************************)
(* peek, lines 133-148, and determinePayloadType, lines 247-263.           *)
(***************************************************************************)
\* What the caller of peek does when peek returns without error: peek itself
\* is done; determinePayloadType unmarshals what it got.
AfterPeek(loc) ==
    LET l == [loc EXCEPT !.peeks = @ + 1]
    IN  IF loc.op = "peek" THEN [l EXCEPT !.pc = "done"]
        ELSE IF Unmarshal(loc.data).err # nil
        THEN [l EXCEPT !.pc = "done", !.err = Unmarshal(loc.data).err]
        ELSE [l EXCEPT !.pc = "determinePayloadType_Lock",
                       !.p = Unmarshal(loc.data).packet]

\* line 139
peek_Lock(self) ==
    /\ th[self].pc = "peek_Lock"
    /\ CanLock(mu)
    /\ mu' = Lock(mu, self)
    /\ th' = [th EXCEPT ![self].pc = "peek_store"]
    /\ UNCHANGED <<t, rcv, gen, newCall>>

\* peek storing nothing.
StorePeekedNot(track, data) == track

\* The track after lines 143-145: a private copy of b[:n] becomes peeked.
StorePeeked(track, data) == [track EXCEPT !.peeked = Some(data)]

\* lines 143-147
peek_store(self) ==
    /\ th[self].pc = "peek_store"
    /\ t' = StorePeeked(t, th[self].data)
    /\ gen' = [gen EXCEPT !.stores = @ + 1, !.cur = gen.stores + 1]
    /\ mu' = Unlock(mu, self)
    /\ th' = [th EXCEPT ![self] = AfterPeek(@)]
    /\ UNCHANGED <<rcv, newCall>>

\* line 258
determinePayloadType_Lock(self) ==
    /\ th[self].pc = "determinePayloadType_Lock"
    /\ CanLock(mu)
    /\ mu' = Lock(mu, self)
    /\ th' = [th EXCEPT ![self].pc = "determinePayloadType_set"]
    /\ UNCHANGED <<t, rcv, gen, newCall>>

\* Line 259 left out.
SetPayloadTypeNot(track, r) == track

\* The track after line 259.
SetPayloadType(track, r) == [track EXCEPT !.payloadType = r.PayloadType]

\* lines 259-262
determinePayloadType_set(self) ==
    /\ th[self].pc = "determinePayloadType_set"
    /\ t' = SetPayloadType(t, Get(th[self].p))
    /\ mu' = Unlock(mu, self)
    /\ th' = [th EXCEPT ![self].pc = "done"]
    /\ UNCHANGED <<rcv, gen, newCall>>

(***************************************************************************)
(* Write, lines 166-179; WriteSample, lines 182-192; WriteRTP, 195-217.    *)
(***************************************************************************)
WriteInputs == {<<1>>, <<96, 7, 0>>}
WritePackets == {Get(Unmarshal(<<96, 7, 0>>).packet)}

\* WriteSample going on to the next packet whatever WriteRTP returned, and
\* Write reporting its input's length whatever WriteRTP returned.
AfterWriteRTPIgnoringErr(loc, err) ==
    LET l == [loc EXCEPT !.rets = Append(@, err)]
    IN  IF loc.op = "WriteRTP" THEN [l EXCEPT !.pc = "done", !.err = err]
        ELSE IF loc.op = "Write"
        THEN [l EXCEPT !.pc = "done", !.err = err, !.n = Len(loc.in)]
        ELSE IF loc.k < Len(loc.packets)
        THEN [l EXCEPT !.k = @ + 1, !.p = Some(loc.packets[loc.k + 1]),
                       !.wrote = Append(@, loc.packets[loc.k + 1]),
                       !.pc = "WriteRTP_RLock",
                       !.senders = <<>>, !.totalSenderCount = 0, !.i = 0,
                       !.writeErrs = <<>>, !.calls = <<>>]
        ELSE [l EXCEPT !.pc = "done", !.err = err]

\* What the caller of WriteRTP does when WriteRTP returns err.
AfterWriteRTP(loc, err) ==
    LET l == [loc EXCEPT !.rets = Append(@, err)]
    IN  IF loc.op = "WriteRTP" THEN [l EXCEPT !.pc = "done", !.err = err]
        ELSE IF loc.op = "Write"
        THEN [l EXCEPT !.pc = "done", !.err = err,
                       !.n = IF err # nil THEN 0 ELSE Len(loc.in)]
        ELSE IF err # nil THEN [l EXCEPT !.pc = "done", !.err = err]
        ELSE IF loc.k < Len(loc.packets)
        THEN [l EXCEPT !.k = @ + 1, !.p = Some(loc.packets[loc.k + 1]),
                       !.wrote = Append(@, loc.packets[loc.k + 1]),
                       !.pc = "WriteRTP_RLock",
                       !.senders = <<>>, !.totalSenderCount = 0, !.i = 0,
                       !.writeErrs = <<>>, !.calls = <<>>]
        ELSE [l EXCEPT !.pc = "done", !.err = nil]

\* WriteRTP(p) is called.
CallWriteRTP(self) ==
    /\ th[self].pc = "done"
    /\ \E p \in WritePackets :
          th' = [th EXCEPT ![self] = [Blank EXCEPT !.op = "WriteRTP", !.p = Some(p),
                                                   !.wrote = <<p>>,
                                                   !.pc = "WriteRTP_RLock"]]
    /\ UNCHANGED <<t, mu, rcv, gen, newCall>>

\* Write(b), lines 167-173: unmarshal, then WriteRTP.
CallWrite(self) ==
    /\ th[self].pc = "done"
    /\ \E b \in WriteInputs :
          th' = [th EXCEPT ![self] =
                    IF Unmarshal(b).err # nil
                    THEN [Blank EXCEPT !.op = "Write", !.in = b, !.n = 0,
                                       !.err = Unmarshal(b).err]
                    ELSE [Blank EXCEPT !.op = "Write", !.in = b,
                                       !.p = Unmarshal(b).packet,
                                       !.wrote = Unmarshal(b).packet,
                                       !.pc = "WriteRTP_RLock"]]
    /\ UNCHANGED <<t, mu, rcv, gen, newCall>>

\* WriteSample(s), lines 183-185: packetize, then WriteRTP the first packet.
CallWriteSample(self) ==
    /\ th[self].pc = "done"
    /\ t.packetizer # None
    /\ \E s \in Samples :
          LET pz == Get(t.packetizer)
              packets == PacketizedPackets(pz, s.Data)
          IN  /\ pz.produced + Len(packets) <= MaxPacketized
              /\ t' = [t EXCEPT !.packetizer = Some(PacketizerAfter(pz, s.Data, s.Samples))]
              /\ th' = [th EXCEPT ![self] =
                          IF packets = <<>>
                          THEN [Blank EXCEPT !.op = "WriteSample"]
                          ELSE [Blank EXCEPT !.op = "WriteSample", !.packets = packets,
                                             !.k = 1, !.p = Some(packets[1]),
                                             !.wrote = <<packets[1]>>,
                                             !.pc = "WriteRTP_RLock"]]
    /\ UNCHANGED <<mu, rcv, gen, newCall>>

\* line 196
WriteRTP_RLock(self) ==
    /\ th[self].pc = "WriteRTP_RLock"
    /\ CanRLock(mu)
    /\ mu' = RLock(mu, self)
    /\ th' = [th EXCEPT ![self].pc = "WriteRTP_snapshot"]
    /\ UNCHANGED <<t, rcv, gen, newCall>>

\* The check of line 197 left out.
WriteModeViolationNever(receiver) == FALSE

WriteModeViolation(receiver) == receiver # "nil"
\* The check of line 205 never taken.
NoSendersNever(totalSenderCount) == FALSE

NoSenders(totalSenderCount) == totalSenderCount = 0

\* Line 205 taking a track none of whose senders is active for one that has
\* no sender.
AfterSnapshotClosedWhenIdle(loc, senders, totalSenderCount) ==
    LET l == [loc EXCEPT !.senders = senders, !.totalSenderCount = totalSenderCount]
    IN  IF totalSenderCount = 0 \/ senders = <<>> THEN AfterWriteRTP(l, ErrClosedPipe)
        ELSE [l EXCEPT !.i = 1, !.pc = "WriteRTP_SendRTP"]

\* WriteRTP after the lock section, lines 205-216, with the snapshot taken:
\* no sender at all is a closed pipe; otherwise the senders are called one
\* by one, and with none active the call is over.
AfterSnapshot(loc, senders, totalSenderCount) ==
    LET l == [loc EXCEPT !.senders = senders, !.totalSenderCount = totalSenderCount]
    IN  IF NoSenders(totalSenderCount) THEN AfterWriteRTP(l, ErrClosedPipe)
        ELSE IF senders = <<>> THEN AfterWriteRTP(l, FlattenErrs(<<>>))
        ELSE [l EXCEPT !.i = 1, !.pc = "WriteRTP_SendRTP"]

\* lines 197-207
WriteRTP_snapshot(self) ==
    /\ th[self].pc = "WriteRTP_snapshot"
    /\ mu' = RUnlock(mu, self)
    /\ th' = [th EXCEPT ![self] =
                IF WriteModeViolation(t.receiver)
                THEN AfterWriteRTP(@, errTrackLocalTrackWrite)
                ELSE AfterSnapshot(@, t.activeSenders, t.totalSenderCount)]
    /\ UNCHANGED <<t, rcv, gen, newCall>>

\* The loop of lines 210-214 returning at the first error.
AfterSendRTPShortCircuit(loc, err) ==
    LET errs == IF err # nil THEN Append(loc.writeErrs, err) ELSE loc.writeErrs
        l == [loc EXCEPT !.writeErrs = errs,
                         !.calls = Append(@, [s |-> loc.senders[loc.i],
                                              p |-> Get(loc.p), err |-> err])]
    IN  IF loc.i < Len(loc.senders) /\ err = nil THEN [l EXCEPT !.i = @ + 1]
        ELSE AfterWriteRTP(l, FlattenErrs(errs))

\* The loop of lines 210-214 after sender i returned err: its error is kept,
\* and the next sender is called or the errors are flattened and returned.
AfterSendRTP(loc, err) ==
    LET errs == IF err # nil THEN Append(loc.writeErrs, err) ELSE loc.writeErrs
        l == [loc EXCEPT !.writeErrs = errs,
                         !.calls = Append(@, [s |-> loc.senders[loc.i],
                                              p |-> Get(loc.p), err |-> err])]
    IN  IF loc.i < Len(loc.senders) THEN [l EXCEPT !.i = @ + 1]
        ELSE AfterWriteRTP(l, FlattenErrs(errs))

\* line 211: sender i's SendRTP returns, with or without an error.
WriteRTP_SendRTP(self) ==
    /\ th[self].pc = "WriteRTP_SendRTP"
    /\ \E ok \in BOOLEAN :
          th' = [th EXCEPT ![self] =
                    AfterSendRTP(@, IF ok THEN nil ELSE errSendRTP(@.senders[@.i]))]
    /\ UNCHANGED <<t, mu, rcv, gen, newCall>>

(***************************************************************************)
(* The accessors, lines 41-102: each returns one field, read under the     *)
(* shared lock; Msid calls Label and then ID.                              *)
(***************************************************************************)
Accessors ==
    {"ID", "RID", "PayloadType", "Kind", "Label", "SSRC", "Msid", "Codec", "Packetizer"}

\* The field the accessor called name returns.
Field(track, name) ==
    CASE name = "ID" -> track.id
      [] name = "RID" -> track.rid
      [] name = "PayloadType" -> track.payloadType
      [] name = "Kind" -> track.kind
      [] name = "Label" -> track.label
      [] name = "SSRC" -> track.ssrc
      [] name = "Codec" -> track.codec
      [] name = "Packetizer" -> track.packetizer

\* The locking accessors a call goes through, in order.
Gets(op) == IF op = "Msid" THEN <<"Label", "ID">> ELSE <<op>>

\* What the call returns, from what its accessors returned: line 87 for Msid.
Result(op, ret) == IF op = "Msid" THEN ret[1] \o " " \o ret[2] ELSE ret[1]

CallAccessor(self) ==
    /\ th[self].pc = "done"
    /\ \E op \in Accessors :
          th' = [th EXCEPT ![self] = [Blank EXCEPT !.op = op, !.get = Gets(op),
                                                   !.pc = "Accessor_RLock"]]
    /\ UNCHANGED <<t, mu, rcv, gen, newCall>>

\* t.mu.RLock() of an accessor
Accessor_RLock(self) ==
    /\ th[self].pc = "Accessor_RLock"
    /\ CanRLock(mu)
    /\ mu' = RLock(mu, self)
    /\ th' = [th EXCEPT ![self].pc = "Accessor_return"]
    /\ UNCHANGED <<t, rcv, gen, newCall>>

\* return t.field, with the deferred RUnlock
Accessor_return(self) ==
    /\ th[self].pc = "Accessor_return"
    /\ mu' = RUnlock(mu, self)
    /\ th' = [th EXCEPT ![self] =
                [@ EXCEPT !.ret = Append(@, Field(t, Head(th[self].get))),
                          !.get = Tail(@),
                          !.pc = IF Len(th[self].get) > 1 THEN "Accessor_RLock"
                                 ELSE "done"]]
    /\ UNCHANGED <<t, rcv, gen, newCall>>

(***************************************************************************)
(* The negotiation layer, which track.go does not hold: attaching a sender *)
(* appends it to activeSenders and counts it in totalSenderCount,          *)
(* detaching one removes it and takes it off the count, each in one        *)
(* section under the exclusive lock, the list first and then the count.    *)
(***************************************************************************)
CallAttach(self) ==
    /\ th[self].pc = "done"
    /\ \E s \in Senders \ Range(t.activeSenders) :
          th' = [th EXCEPT ![self] = [Blank EXCEPT !.op = "attach", !.s = s,
                                                   !.pc = "attach_Lock"]]
    /\ UNCHANGED <<t, mu, rcv, gen, newCall>>

CallDetach(self) ==
    /\ th[self].pc = "done"
    /\ \E s \in Range(t.activeSenders) :
          th' = [th EXCEPT ![self] = [Blank EXCEPT !.op = "detach", !.s = s,
                                                   !.pc = "attach_Lock"]]
    /\ UNCHANGED <<t, mu, rcv, gen, newCall>>

attach_Lock(self) ==
    /\ th[self].pc = "attach_Lock"
    /\ CanLock(mu)
    /\ mu' = Lock(mu, self)
    /\ th' = [th EXCEPT ![self].pc = "attach_list"]
    /\ UNCHANGED <<t, rcv, gen, newCall>>

attach_list(self) ==
    /\ th[self].pc = "attach_list"
    /\ t' = [t EXCEPT !.activeSenders =
                IF th[self].op = "attach" THEN Append(@, th[self].s)
                ELSE SelectSeq(@, LAMBDA x : x # th[self].s)]
    /\ th' = [th EXCEPT ![self].pc = "attach_count"]
    /\ UNCHANGED <<mu, rcv, gen, newCall>>

attach_count(self) ==
    /\ th[self].pc = "attach_count"
    /\ t' = [t EXCEPT !.totalSenderCount =
                IF th[self].op = "attach" THEN @ + 1 ELSE @ - 1]
    /\ mu' = Unlock(mu, self)
    /\ th' = [th EXCEPT ![self].pc = "done"]
    /\ UNCHANGED <<rcv, gen, newCall>>

(***************************************************************************)
(* The goroutines: readers, writers, and a single one of each.             *)
(***************************************************************************)
StepRead(self, history) ==
    \/ CallRead(self, history)
    \/ Read_RLock(self)
    \/ Read_check(self)
    \/ Read_Lock(self)
    \/ Read_take(self)
    \/ Read_clear(self)
    \/ Read_readRTP(self)
    \/ peek_Lock(self)
    \/ peek_store(self)
    \/ determinePayloadType_Lock(self)
    \/ determinePayloadType_set(self)

StepWrite(self) ==
    \/ CallWriteRTP(self)
    \/ CallWrite(self)
    \/ CallWriteSample(self)
    \/ WriteRTP_RLock(self)
    \/ WriteRTP_snapshot(self)
    \/ WriteRTP_SendRTP(self)

NextRead == \E self \in Threads : StepRead(self, FALSE)
SpecRead == InitRead /\ [][NextRead]_vars

NextWrite == \E self \in Threads : StepWrite(self)
SpecWrite == Init /\ [][NextWrite]_vars

NextSeqRead == StepRead(MainThread, TRUE)
SpecSeqRead == InitRead /\ [][NextSeqRead]_vars

\* Line 129 with a receiver whose packets are all well formed and of one
\* payload type, not the one the track was made with: they differ by their
\* sequence numbers alone.
Deliver(self) ==
    /\ Read_readRTP(self)
    /\ Unmarshal(rcv'[Len(rcv')]).err = nil
    /\ rcv'[Len(rcv')][1] = CHOOSE pt \in PayloadTypes : pt # DefaultArgs.payloadType

\* The steps of Read and peek after the call.
StepsReadPeek(self) ==
    \/ Read_RLock(self)
    \/ Read_check(self)
    \/ Read_Lock(self)
    \/ Read_take(self)
    \/ Read_clear(self)
    \/ Deliver(self)
    \/ peek_Lock(self)
    \/ peek_store(self)

\* Goroutines that call Read and peek and keep the log of what their Reads
\* returned.
CallDeliver(self) ==
    /\ CallRead(self, TRUE)
    /\ th'[self].op \in {"Read", "peek"}

NextDeliver == \E self \in Threads : CallDeliver(self) \/ StepsReadPeek(self)
SpecDeliver == InitRead /\ [][NextDeliver]_vars

\* The same, no peek being called while another goroutine is in peek.
InPeek(self) == th[self].op = "peek" /\ th[self].pc # "done"

CallOnePeek(self) ==
    /\ CallDeliver(self)
    /\ th'[self].op = "peek" => \A other \in Threads \ {self} : ~InPeek(other)

NextOnePeek == \E self \in Threads : CallOnePeek(self) \/ StepsReadPeek(self)
SpecOnePeek == InitRead /\ [][NextOnePeek]_vars

StepAccessor(self) ==
    \/ CallAccessor(self)
    \/ Accessor_RLock(self)
    \/ Accessor_return(self)

\* One goroutine reads while the others write.
NextMixed ==
    \/ StepRead(MainThread, FALSE)
    \/ \E self \in Threads \ {MainThread} : StepWrite(self)
InitMixed == InitWith({<<>>, <<1>>})
SpecMixed == InitMixed /\ [][NextMixed]_vars

\* Senders are attached to and detached from the track NewTrack returned by
\* one goroutine while the others call WriteRTP.
StepAttach(self) ==
    \/ CallAttach(self)
    \/ CallDetach(self)
    \/ attach_Lock(self)
    \/ attach_list(self)
    \/ attach_count(self)

NextAttach ==
    \/ StepAttach(MainThread)
    \/ \E self \in Threads \ {MainThread} :
          \/ CallWriteRTP(self)
          \/ WriteRTP_RLock(self)
          \/ WriteRTP_snapshot(self)
          \/ WriteRTP_SendRTP(self)

InitAttach ==
    /\ InitWith({<<>>})
    /\ t = Get(NewTrackOf(DefaultArgs).track)
SpecAttach == InitAttach /\ [][NextAttach]_vars

(***************************************************************************)
(* Progress.  One goroutine calls Read and WriteRTP, and may stay in the   *)
(* receiver or in a sender for ever; the others call the accessors, peek,  *)
(* determinePayloadType, Read and WriteRTP.  The scheduler runs every      *)
(* goroutine that can take a step (weak fairness), and sync.RWMutex lets   *)
(* no Lock or RLock wait for ever while the lock keeps becoming free       *)
(* (strong fairness); the receiver and the senders promise nothing.        *)
(* The packets are those of Deliver: progress does not depend on what they *)
(* hold.                                                                   *)
(***************************************************************************)
CallLive(self) ==
    \/ /\ CallRead(self, FALSE)
       /\ th'[self].b = receiveMTU
       /\ th'[self].op \in (IF self = MainThread THEN {"Read"}
                            ELSE {"Read", "peek", "determinePayloadType"})
    \/ CallWriteRTP(self)
    \/ self # MainThread /\ CallAccessor(self)

\* The steps inside a lock section, the lock being held.
Section(self) ==
    \/ Read_check(self)
    \/ Read_take(self)
    \/ Read_clear(self)
    \/ peek_store(self)
    \/ determinePayloadType_set(self)
    \/ WriteRTP_snapshot(self)
    \/ Accessor_return(self)

\* The calls of RLock.
AcquireShared(self) ==
    \/ Read_RLock(self)
    \/ WriteRTP_RLock(self)
    \/ Accessor_RLock(self)

\* The calls of Lock.
AcquireExclusive(self) ==
    \/ Read_Lock(self)
    \/ peek_Lock(self)
    \/ determinePayloadType_Lock(self)

\* The calls into the receiver and into the senders, when they return.
Collaborator(self) ==
    \/ Deliver(self)
    \/ WriteRTP_SendRTP(self)

NextLive ==
    \E self \in Threads :
        \/ CallLive(self)
        \/ Section(self)
        \/ AcquireShared(self)
        \/ AcquireExclusive(self)
        \/ Collaborator(self)

Fairness ==
    \A self \in Threads :
        /\ WF_vars(Section(self))
        /\ SF_vars(AcquireShared(self))
        /\ SF_vars(AcquireExclusive(self))

InitLive == InitWith({<<1>>})
SpecLive == InitLive /\ [][NextLive]_vars /\ Fairness

(***************************************************************************)
(* Construction alone: NewTrack called with any arguments.                 *)
(***************************************************************************)
UInt8s == {0, 96, 255}
\* 2147483647 stands for the large values of a uint32.
UInt32s == {0, 1, 2147483647}
NewTrackArgs ==
    [payloadType : UInt8s, ssrc : UInt32s, id : {"", "ID123"}, label : {"", "L"},
     codec : Codecs, sequenceNumber : InitialSequenceNumbers]

InitNew ==
    /\ t = NoTrack
    /\ mu = Unlocked
    /\ th = [self \in Threads |-> Blank]
    /\ rcv = <<>>
    /\ gen = NoGen
    /\ newCall = [called |-> FALSE, args |-> DefaultArgs, track |-> None, err |-> nil]

CallNewTrack ==
    /\ \E args \in NewTrackArgs :
          /\ newCall' = [called |-> TRUE, args |-> args,
                         track |-> NewTrackOf(args).track, err |-> NewTrackOf(args).err]
          /\ t' = IF NewTrackOf(args).track = None THEN NoTrack
                  ELSE Get(NewTrackOf(args).track)
    /\ UNCHANGED <<mu, th, rcv, gen>>

NextNew == CallNewTrack
SpecNew == InitNew /\ [][NextNew]_vars

(***************************************************************************)
(* Properties.                                                             *)
(***************************************************************************)
ReadOps == {"Read", "peek", "ReadRTP", "determinePayloadType"}
WriteOps == {"Write", "WriteRTP", "WriteSample"}
Done(self, op) == th[self].op = op /\ th[self].pc = "done"

\* The errors of the calls that failed, in call order.
RECURSIVE FailuresOf(_)
FailuresOf(calls) ==
    IF calls = <<>> THEN <<>>
    ELSE (IF Head(calls).err # nil THEN <<Head(calls).err>> ELSE <<>>)
         \o FailuresOf(Tail(calls))

\* C1: on a track with senders or without a receiver, every Read and every
\* ReadRTP ends with errTrackLocalTrackRead, 0 bytes and no packet; the
\* receiver is never read and peeked stays as it was (empty).
C1_ReadOnLocalTrackFails ==
    (t.totalSenderCount # 0 \/ t.receiver = "nil") =>
        /\ rcv = <<>>
        /\ t.peeked = None
        /\ \A self \in Threads :
              /\ th[self].pc # "Read_readRTP"
              /\ th[self].reads = 0
              /\ th[self].op \in ReadOps /\ th[self].pc = "done" =>
                    /\ th[self].err = errTrackLocalTrackRead
                    /\ th[self].n = 0
                    /\ th[self].data = <<>>
                    /\ th[self].p = None

C1_Witness ==
    /\ t.receiver = "receiver"
    /\ t.totalSenderCount # 0
    /\ Done(1, "ReadRTP") /\ th[1].err = errTrackLocalTrackRead
    /\ Done(2, "Read") /\ th[2].err = errTrackLocalTrackRead

\* C2: on a track with a receiver and no senders, every Write, WriteRTP and
\* WriteSample ends with errTrackLocalTrackWrite, no sender is called and
\* the packetizer is as NewTrack made it.
C2_WriteOnRemoteTrackFails ==
    (t.receiver # "nil" /\ t.totalSenderCount = 0) =>
        /\ t.packetizer = Get(newCall.track).packetizer
        /\ \A self \in Threads :
              /\ th[self].calls = <<>>
              /\ th[self].op \in WriteOps /\ th[self].pc = "done" =>
                    th[self].err = errTrackLocalTrackWrite

\* C3: on a track without a receiver and with senders configured, a WriteRTP
\* calls every active sender once, in list order, with its packet, whatever
\* the earlier ones returned; it returns nil when none failed and otherwise
\* the aggregate of exactly the errors of those that failed.
C3_FanOut ==
    (t.receiver = "nil" /\ t.totalSenderCount > 0) =>
        \A self \in Threads :
            LET c == th[self].calls
                failures == FailuresOf(c)
            IN  /\ th[self].pc = "WriteRTP_SendRTP" =>
                      [j \in 1..Len(c) |-> c[j].s] =
                          SubSeq(t.activeSenders, 1, th[self].i - 1)
                /\ Done(self, "WriteRTP") =>
                      /\ [j \in 1..Len(c) |-> c[j].s] = t.activeSenders
                      /\ \A j \in 1..Len(c) : c[j].p = Get(th[self].p)
                      /\ \A j \in 1..Len(c) :
                            c[j].err \in {nil, errSendRTP(t.activeSenders[j])}
                      /\ (th[self].err = nil) <=> (failures = <<>>)
                      /\ th[self].err = IF failures = <<>> THEN nil
                                        ELSE <<"multiError">> \o Concat(failures)

C3_Witness ==
    \E self \in Threads :
        /\ Done(self, "WriteRTP")
        /\ Len(th[self].calls) = 2
        /\ th[self].calls[1].err # nil
        /\ th[self].calls[2].err = nil
        /\ th[self].err = <<"multiError">> \o th[self].calls[1].err

\* C4: on a track without a receiver and with totalSenderCount = 0, a
\* WriteRTP returns io.ErrClosedPipe and no sender is called, whatever
\* activeSenders holds.
C4_ClosedPipe ==
    (t.receiver = "nil" /\ t.totalSenderCount = 0) =>
        \A self \in Threads :
            /\ th[self].pc # "WriteRTP_SendRTP"
            /\ th[self].calls = <<>>
            /\ Done(self, "WriteRTP") => th[self].err = ErrClosedPipe

C4_Witness ==
    /\ t.receiver = "nil" /\ t.totalSenderCount = 0 /\ Len(t.activeSenders) = 2
    /\ \E self \in Threads : Done(self, "WriteRTP") /\ th[self].err = ErrClosedPipe

\* C5: WriteSample calls WriteRTP with the packetizer's packets in order up
\* to and including the first one WriteRTP fails on, and returns that
\* WriteRTP's error; when none fails, every packet is written and it
\* returns nil.
C5_FailFast ==
    \A self \in Threads :
        LET w == th[self].wrote
            r == th[self].rets
        IN  Done(self, "WriteSample") =>
                /\ Len(r) = Len(w)
                /\ w = SubSeq(th[self].packets, 1, Len(w))
                /\ \A j \in 1..(Len(r) - 1) : r[j] = nil
                /\ IF \E j \in 1..Len(r) : r[j] # nil
                   THEN th[self].err = r[Len(r)]
                   ELSE th[self].err = nil /\ Len(w) = Len(th[self].packets)

C5_Witness ==
    \E self \in Threads :
        /\ Done(self, "WriteSample")
        /\ Len(th[self].packets) = 3
        /\ Len(th[self].wrote) = 2
        /\ th[self].rets[1] = nil
        /\ th[self].err = <<"multiError">> \o errSendRTP(1)

\* C10: Write returns (len(b), nil) exactly when b unmarshals and WriteRTP
\* returns nil, and (0, the error) otherwise; when b does not unmarshal,
\* WriteRTP is not called and no sender is.
C10_Write ==
    \A self \in Threads :
        Done(self, "Write") =>
            IF Len(th[self].in) < HeaderLen
            THEN /\ th[self].n = 0
                 /\ th[self].err = errHeaderSizeInsufficient
                 /\ th[self].wrote = <<>> /\ th[self].rets = <<>>
                 /\ th[self].calls = <<>>
            ELSE /\ Len(th[self].wrote) = 1 /\ Len(th[self].rets) = 1
                 /\ th[self].err = th[self].rets[1]
                 /\ th[self].n = IF th[self].rets[1] = nil THEN Len(th[self].in) ELSE 0
                 /\ th[self].rets[1] \in {nil, errTrackLocalTrackWrite, ErrClosedPipe}
                        \/ FailuresOf(th[self].calls) # <<>>

C10_Witness ==
    \E self \in Threads :
        /\ Done(self, "Write")
        /\ Len(th[self].calls) = 2
        /\ th[self].calls[1].err = nil
        /\ th[self].calls[2].err # nil
        /\ th[self].n = 0
        /\ th[self].err # nil

\* C9: NewTrack with ssrc = 0 returns errTrackSSRCNewTrackZero and no track;
\* with any other ssrc it returns a track with the SSRC, payload type, id,
\* label and codec it was given, the codec's type as its kind, no receiver,
\* no sender and nothing peeked.
C9_NewTrack ==
    newCall.called =>
        IF newCall.args.ssrc = 0
        THEN newCall.err = errTrackSSRCNewTrackZero /\ newCall.track = None
        ELSE /\ newCall.err = nil
             /\ newCall.track # None
             /\ LET track == Get(newCall.track)
                IN  /\ track.ssrc = newCall.args.ssrc
                    /\ track.payloadType = newCall.args.payloadType
                    /\ track.id = newCall.args.id
                    /\ track.label = newCall.args.label
                    /\ track.codec = Some(newCall.args.codec)
                    /\ track.kind = newCall.args.codec.Type
                    /\ track.receiver = "nil"
                    /\ track.activeSenders = <<>>
                    /\ track.totalSenderCount = 0
                    /\ track.peeked = None

C9_Witness ==
    /\ newCall.called
    /\ newCall.args.ssrc = 2147483647
    /\ newCall.args.payloadType = 255
    /\ newCall.args.codec.Type = "audio"
    /\ newCall.track # None

\* C6 as stated: alone, a goroutine's peek followed by its Read gives the
\* same bytes twice, the receiver is read once for the two, and peeked is
\* empty after the Read.
C6_PeekThenReadAsStated ==
    LET l == th[MainThread]
    IN  (Done(MainThread, "Read") /\ l.prev # None /\ Get(l.prev).op = "peek"
         /\ Get(l.prev).err = nil) =>
            /\ l.err = nil
            /\ l.data = Get(l.prev).data
            /\ Get(l.prev).reads + l.reads = 1
            /\ t.peeked = None

\* C6, amended: alone, after a peek that succeeded, a Read succeeds with the
\* first len(b) bytes of what peek returned, all of them when b is long
\* enough; the Read does not read the receiver, the peek read it once when
\* the slot was empty before it and not at all when it took a buffered
\* packet; peeked is empty after the Read.
C6_PeekThenRead ==
    LET l == th[MainThread]
    IN  (Done(MainThread, "Read") /\ l.prev # None /\ Get(l.prev).op = "peek"
         /\ Get(l.prev).err = nil) =>
            /\ l.err = nil
            /\ l.data = SubSeq(Get(l.prev).data, 1, Min(l.b, Len(Get(l.prev).data)))
            /\ l.b >= Len(Get(l.prev).data) => l.data = Get(l.prev).data
            /\ l.reads = 0
            /\ Get(l.prev).reads = IF Get(l.prev).taken = None THEN 1 ELSE 0
            /\ t.peeked = None

C6_Witness ==
    LET l == th[MainThread]
    IN  /\ Done(MainThread, "Read") /\ l.prev # None /\ Get(l.prev).op = "peek"
        /\ Get(l.prev).err = nil /\ Get(l.prev).reads = 1
        /\ l.b = receiveMTU
        /\ l.data = Get(l.prev).data /\ Len(l.data) = 3

\* Whether the goroutine found peeked set at line 113 and nil at line 118.
LostRace(self) ==
    /\ th[self].peeked
    /\ th[self].taken = None
    /\ th[self].pc \notin {"Read_Lock", "Read_take", "Read_clear"}

\* C7: the value of one store into peeked is taken by at most one caller:
\* between a caller's taking it and its clearing the slot, the slot still
\* holds it; a caller that found peeked set and then nil reads the
\* receiver instead.
C7_OneClaimant ==
    /\ \A g \in 1..MaxPeeks : gen.taken[g] <= 1
    /\ \A self \in Threads :
          /\ th[self].pc = "Read_clear" => t.peeked = th[self].taken
          /\ LostRace(self) =>
                \/ th[self].pc = "Read_readRTP" /\ th[self].reads = 0
                \/ th[self].reads = 1

C7_Witness ==
    \E a, b \in Threads :
        /\ a # b
        /\ th[a].peeked /\ th[a].taken # None /\ th[a].pc = "done"
        /\ LostRace(b) /\ th[b].pc = "Read_readRTP"
        /\ gen.stores = 1

\* C8 as stated: whatever a Read or a peek returns without error is a whole
\* packet the receiver delivered, and so is what peeked holds.
C8_WholePacketsAsStated ==
    /\ t.peeked # None => \E j \in DOMAIN rcv : Get(t.peeked) = rcv[j]
    /\ \A self \in Threads :
          (th[self].op \in {"Read", "peek"} /\ th[self].pc = "done"
           /\ th[self].err = nil) =>
              \E j \in DOMAIN rcv : th[self].data = rcv[j]

\* C8, amended: what a peek returns without error, and what peeked holds, is
\* a whole packet the receiver delivered; what a Read returns without error
\* is the first len(b) bytes of such a packet, the whole of it when b is
\* long enough.
C8_WholePackets ==
    /\ t.peeked # None => \E j \in DOMAIN rcv : Get(t.peeked) = rcv[j]
    /\ \A self \in Threads :
          /\ (Done(self, "peek") /\ th[self].err = nil) =>
                \E j \in DOMAIN rcv : th[self].data = rcv[j]
          /\ (Done(self, "Read") /\ th[self].err = nil) =>
                \E j \in DOMAIN rcv :
                    /\ th[self].data = SubSeq(rcv[j], 1, Min(th[self].b, Len(rcv[j])))
                    /\ th[self].b >= Len(rcv[j]) => th[self].data = rcv[j]

C8_Witness ==
    /\ Len(rcv) = 2
    /\ t.peeked = Some(rcv[2])
    /\ Done(1, "Read") /\ th[1].err = nil /\ th[1].data = rcv[1] /\ th[1].taken # None
    /\ Done(2, "peek") /\ th[2].err = nil /\ th[2].data = rcv[2]

\* Whether the goroutine holds t.mu, shared or exclusive.
Holds(self) == mu.writer = self \/ self \in mu.readers

\* C11: a goroutine that is inside the receiver's readRTP or inside a
\* sender's SendRTP holds t.mu neither shared nor exclusive, whichever of
\* Read, peek, ReadRTP, determinePayloadType, Write, WriteRTP and WriteSample
\* brought it there.
C11_NoLockInCollaborators ==
    \A self \in Threads :
        th[self].pc \in {"Read_readRTP", "WriteRTP_SendRTP"} => ~Holds(self)

C11_Witness ==
    \E self \in Threads :
        /\ th[self].op = "WriteSample" /\ th[self].pc = "WriteRTP_SendRTP"
        /\ th[self].k = 2
        /\ th[MainThread].pc = "Read_check" /\ Holds(MainThread)

\* Returned, or inside the receiver or a sender.
AtRest(self) == th[self].pc \in {"done", "Read_readRTP", "WriteRTP_SendRTP"}

\* In a call of Lock or RLock that has not returned.
Waiting(self) ==
    th[self].pc \in {"Read_RLock", "Read_Lock", "peek_Lock", "determinePayloadType_Lock",
                     "WriteRTP_RLock", "Accessor_RLock"}

\* C12: a goroutine holds t.mu only inside a lock section: not once its call
\* has returned, by whatever path, nor inside the receiver or a sender, nor
\* while it waits for the lock; and whatever stays in the receiver or in a
\* sender for ever, every goroutine that has entered a lock section or
\* waits for the lock gets through the section: it comes to return or to
\* call the receiver or a sender, and an accessor call, which calls neither,
\* returns.
C12_Progress ==
    /\ [](\A self \in Threads : (AtRest(self) \/ Waiting(self)) => ~Holds(self))
    /\ \A self \in Threads : ~AtRest(self) ~> AtRest(self)

\* The first goroutine's Read is in the receiver, which delivers nothing
\* more, after the other's peek stored a packet and its Msid returned.
C12_Witness ==
    /\ th[MainThread].op = "Read" /\ th[MainThread].pc = "Read_readRTP"
    /\ Len(rcv) = MaxPackets
    /\ t.peeked # None
    /\ \E self \in Threads :
          /\ Done(self, "Msid")
          /\ Result("Msid", th[self].ret) = "L ID123"

\* C13: on a track without a receiver, with totalSenderCount > 0 and no
\* active sender, no step of a WriteRTP call changes the track or calls a
\* sender, and the call returns nil.
C13_IdleWrite ==
    [][(t.receiver = "nil" /\ t.totalSenderCount > 0 /\ t.activeSenders = <<>>) =>
          \A self \in Threads :
              (th'[self] # th[self] /\ th'[self].op = "WriteRTP") =>
                  /\ t' = t
                  /\ th'[self].calls = <<>>
                  /\ th'[self].pc # "WriteRTP_SendRTP"
                  /\ th'[self].pc = "done" => th'[self].err = nil]_vars

C13_Witness ==
    /\ t.receiver = "nil" /\ t.totalSenderCount > 0 /\ t.activeSenders = <<>>
    /\ \E self \in Threads :
          /\ Done(self, "WriteRTP")
          /\ th[self].err = nil
          /\ th[self].calls = <<>>
          /\ th[self].totalSenderCount > 0 /\ th[self].senders = <<>>

\* C14: a determinePayloadType call has made one peek when it returns; it
\* returns nil exactly when the peek returned a packet that unmarshals, and
\* has then just set payloadType to the payload type of that packet's
\* header; otherwise it returns the error of the peek or of Unmarshal; no
\* other step of the call changes payloadType.
C14_DeterminePayloadType ==
    [][\A self \in Threads :
          (th'[self] # th[self] /\ th'[self].op = "determinePayloadType") =>
              LET l == th'[self]
              IN  IF l.pc # "done"
                  THEN t'.payloadType = t.payloadType /\ l.peeks <= 1
                  ELSE /\ l.peeks = 1
                       /\ IF l.err = nil
                          THEN /\ Len(l.data) >= HeaderLen
                               /\ t'.payloadType = l.data[1]
                          ELSE /\ t'.payloadType = t.payloadType
                               /\ \/ l.err = errTrackLocalTrackRead /\ l.data = <<>>
                                  \/ /\ l.err = errHeaderSizeInsufficient
                                     /\ l.data # <<>> /\ Len(l.data) < HeaderLen]_vars

\* The call has just set payloadType to a value it did not have, that of the
\* packet it peeked, while the other goroutine is in a call of its own.
C14_Witness ==
    \E self \in Threads :
        /\ Done(self, "determinePayloadType") /\ th[self].err = nil
        /\ th[self].peeks = 1
        /\ t.payloadType = th[self].data[1]
        /\ t.payloadType # DefaultArgs.payloadType
        /\ \E other \in Threads \ {self} :
              th[other].op = "determinePayloadType" /\ th[other].pc = "peek_Lock"

\* C15: payloadType changes at most once after construction: whenever it
\* changes, it had until then the value NewTrack gave it.
C15_ChangesOnce ==
    [][t'.payloadType # t.payloadType =>
          t.payloadType = Get(newCall.track).payloadType]_vars

\* C16: no Read and WriteRTP have both succeeded.  On a track with a
\* receiver no sender is called and every WriteRTP returns
\* errTrackLocalTrackWrite; on a track with senders the receiver is not read
\* and every Read returns errTrackLocalTrackRead; with both, both; with
\* neither, Read returns errTrackLocalTrackRead and WriteRTP returns
\* io.ErrClosedPipe.
C16_ModeExclusivity ==
    /\ ~ \E r, w \in Threads :
            /\ Done(r, "Read") /\ th[r].err = nil
            /\ Done(w, "WriteRTP") /\ th[w].err = nil
    /\ t.receiver # "nil" =>
          \A self \in Threads :
              /\ th[self].pc # "WriteRTP_SendRTP"
              /\ th[self].calls = <<>>
              /\ \A j \in DOMAIN th[self].rets : th[self].rets[j] = errTrackLocalTrackWrite
              /\ Done(self, "WriteRTP") => th[self].err = errTrackLocalTrackWrite
    /\ t.totalSenderCount # 0 =>
          /\ rcv = <<>>
          /\ \A self \in Threads :
                /\ th[self].pc # "Read_readRTP"
                /\ Done(self, "Read") => th[self].err = errTrackLocalTrackRead
    /\ (t.receiver = "nil" /\ t.totalSenderCount = 0) =>
          \A self \in Threads :
              /\ th[self].pc \notin {"Read_readRTP", "WriteRTP_SendRTP"}
              /\ Done(self, "Read") => th[self].err = errTrackLocalTrackRead
              /\ Done(self, "WriteRTP") => th[self].err = ErrClosedPipe

\* With both a receiver and senders, a Read and a WriteRTP have failed.
C16_Witness ==
    /\ t.receiver # "nil" /\ t.totalSenderCount # 0 /\ t.activeSenders # <<>>
    /\ \E r, w \in Threads :
          /\ Done(r, "Read") /\ th[r].err = errTrackLocalTrackRead
          /\ Done(w, "WriteRTP") /\ th[w].err = errTrackLocalTrackWrite

Idx(data) == IF Len(data) = 1 THEN data[1] ELSE data[2]

\* The Reads the application called that returned bytes of the k-th packet.
ReadsOf(k) ==
    {c \in Threads \X (1..MaxPackets) :
        c[2] <= Len(th[c[1]].log) /\ Idx(th[c[1]].log[c[2]].data) = k}

\* C18: of each packet of the receiver, at most one Read that the
\* application called has returned bytes; the peeks may have returned it to
\* any number of callers.
C18_NoDuplicate ==
    \A k \in 1..Len(rcv) : Cardinality(ReadsOf(k)) <= 1

\* A packet went to a peek, from the slot to a second peek, and from the
\* slot to a Read.
C18_Witness ==
    /\ gen.stores = 2 /\ gen.taken[1] = 1 /\ gen.taken[2] = 1
    /\ Len(rcv) = 1
    /\ Cardinality(ReadsOf(1)) = 1
    /\ \E self \in Threads : Done(self, "Read") /\ th[self].prev # None
                              /\ Get(th[self].prev).op = "peek"
                              /\ Get(th[self].prev).data = rcv[1]

\* Whether the k-th packet has been returned by a Read, whole or cut to the
\* Read's buffer, or is still on its way to one: in peeked, or with a peek
\* that has it from its Read and has yet to store it.
Accounted(k) ==
    \/ ReadsOf(k) # {}
    \/ t.peeked # None /\ Idx(Get(t.peeked)) = k
    \/ \E self \in Threads :
          /\ th[self].op = "peek"
          /\ th[self].pc \in {"peek_Lock", "peek_store"}
          /\ Idx(th[self].data) = k

\* C19: when no two peeks overlap, peeked is nil whenever a peek stores into
\* it, and no packet of the receiver is lost: each has been returned by a
\* Read or is still on its way to one.
C19_NoLoss ==
    /\ \A self \in Threads : th[self].pc = "peek_store" => t.peeked = None
    /\ \A k \in 1..Len(rcv) : Accounted(k)

\* Both goroutines have peeked, the second taking what the first stored, and
\* both have read; every packet the receiver can deliver has come.
C19_Witness ==
    /\ Len(rcv) = MaxPackets
    /\ gen.stores = 2 /\ gen.taken[1] = 1
    /\ \A self \in Threads : th[self].log # <<>> /\ th[self].pc = "done"
    /\ t.peeked = None

\* Whether the goroutine has just finished a Read or a ReadRTP that came
\* right after a peek or a determinePayloadType that had got a packet.
ReadAfterPeek(self) ==
    /\ th[self].pc = "done" /\ th[self].op \in {"Read", "ReadRTP"}
    /\ th[self].prev # None
    /\ Get(th[self].prev).op \in {"peek", "determinePayloadType"}
    /\ Get(th[self].prev).data # <<>>

\* C20 as stated: alone, the j-th Read to reach a packet returns the
\* receiver's j-th packet unless the receiver's read fails, and a Read
\* returns what the peek or determinePayloadType before it got.
C20_InOrderAsStated ==
    LET l == th[MainThread]
    IN  /\ \A j \in DOMAIN l.log :
              j <= Len(rcv) /\ (l.log[j].err = nil => l.log[j].data = rcv[j])
        /\ ReadAfterPeek(MainThread) => l.log[Len(l.log)].data = Get(l.prev).data

\* C20, amended: alone, the j-th Read to reach a packet gets the first
\* len(b) bytes of the receiver's j-th packet, the whole packet when b is
\* long enough, and it fails only when the receiver's read does, the buffer
\* being too short for it; between calls every packet the receiver has delivered has gone to
\* a Read but the last, which may be in peeked; a Read that follows a peek
\* or a determinePayloadType that got a packet, Unmarshal failing on it or
\* not, returns the first len(b) bytes of that packet without error.
C20_InOrder ==
    LET l == th[MainThread]
        log == l.log
    IN  /\ \A j \in DOMAIN log :
              /\ j <= Len(rcv)
              /\ log[j].data = SubSeq(rcv[j], 1, Len(log[j].data))
              /\ log[j].data # <<>>
              /\ IF log[j].err = nil
                 THEN Len(log[j].data) = Len(rcv[j]) \/ Len(log[j].data) \in BufferLens
                 ELSE log[j].err = ErrShortBuffer /\ Len(log[j].data) < Len(rcv[j])
        /\ l.pc = "done" =>
              IF t.peeked = None THEN Len(rcv) = Len(log)
              ELSE Len(rcv) = Len(log) + 1 /\ Get(t.peeked) = rcv[Len(rcv)]
        /\ ReadAfterPeek(MainThread) =>
              LET last == log[Len(log)]
                  got == Get(l.prev).data
              IN  /\ last.err = nil
                  /\ last.data = SubSeq(got, 1, Min(l.b, Len(got)))
                  /\ l.b >= Len(got) => last.data = got
                  /\ t.peeked = None

\* A Read has returned the second packet, which determinePayloadType had
\* peeked and failed to unmarshal, after a Read of the first.
C20_Witness ==
    LET l == th[MainThread]
    IN  /\ ReadAfterPeek(MainThread)
        /\ Get(l.prev).op = "determinePayloadType"
        /\ Get(l.prev).err = errHeaderSizeInsufficient
        /\ Len(l.log) = 2
        /\ l.log[1].data = rcv[1] /\ l.log[2].data = rcv[2]

====
